---- MODULE Spec2Model ----
(***************************************************************************)
(* Model of TPIprocessing.py: processTPI, slopePosition and landform, the  *)
(* arcpy raster operations they call, and the process-wide arcpy.env they  *)
(* read and write.                                                         *)
(*                                                                         *)
(* Rasters are functions from cells <<row, col>> to an integer value or    *)
(* NoData.  Statistics are kept exact: for N valid cells with sum S and    *)
(* sum of squares Q, mean = S/N and (population) standardDeviation =       *)
(* sqrt(D)/N with D = N*Q - S*S, so every comparison of a cell value with  *)
(* mean + k*sd is a comparison of an integer with k*sqrt(D), decided by    *)
(* signs and squares.                                                      *)
(*                                                                         *)
(* The malformed del statements at TPIprocessing.py lines 252 and 255 are  *)
(* read as the deletions of intermediates they were meant to be; they      *)
(* change no result.                                                       *)
(***************************************************************************)
EXTENDS Integers, FiniteSets, Sequences, TLC

VARIABLES env, call, out, raised

vars == <<env, call, out, raised>>

----------------------------------------------------------------------------
(* Bounds of the model *)

\* side of the square DEM handed to processTPI
GridSize == 5
\* largest annulus radius handed to processTPI
MaxRadius == 2
\* largest number of NoData cells in a DEM handed to processTPI
MaxNoData == 1
\* largest TPI value of a raster handed to slopePosition
MaxTPI == 2
\* largest TPI value of a raster handed to landform
MaxLandformTPI == 1

----------------------------------------------------------------------------
(* Rasters *)

NoData == -9999

DemCells == (1..GridSize) \X (1..GridSize)
\* the cells of the TPI and slope rasters handed to the classifiers: one row
StripCells == {<<1, 1>>, <<1, 2>>, <<1, 3>>}

Valid(r) == {c \in DOMAIN r : r[c] # NoData}

RECURSIVE SumOver(_, _)
SumOver(r, cs) ==
    IF cs = {} THEN 0
    ELSE LET c == CHOOSE x \in cs : TRUE IN r[c] + SumOver(r, cs \ {c})

RECURSIVE SumSqOver(_, _)
SumSqOver(r, cs) ==
    IF cs = {} THEN 0
    ELSE LET c == CHOOSE x \in cs : TRUE IN r[c] * r[c] + SumSqOver(r, cs \ {c})

Minimum(r) == CHOOSE v \in {r[c] : c \in Valid(r)} : \A c \in Valid(r) : v <= r[c]
Maximum(r) == CHOOSE v \in {r[c] : c \in Valid(r)} : \A c \in Valid(r) : v >= r[c]

\* the statistics of a raster: n = 0 when it has no valid cell (arcpy gives None)
Stats(r) ==
    LET cs == Valid(r)
        n == Cardinality(cs)
        s == SumOver(r, cs)
        q == SumSqOver(r, cs)
    IN  [n |-> n, s |-> s, d |-> n * q - s * s,
         min |-> IF n = 0 THEN 0 ELSE Minimum(r),
         max |-> IF n = 0 THEN 0 ELSE Maximum(r)]

----------------------------------------------------------------------------
(* arcpy.env and masks *)

Masks == {"west"}

\* the cells inside a mask dataset; every Spatial Analyst output is NoData outside
\* arcpy.env.mask
InMask(m, c) == m = "None" \/ (m = "west" /\ c[2] <= 2)

ExtractByMask(r, m) == [c \in DOMAIN r |-> IF InMask(m, c) THEN r[c] ELSE NoData]

----------------------------------------------------------------------------
(* processTPI *)

\* NbrAnnulus(inner_radius, outer_radius, unit): the offsets whose cell centre lies
\* between the two radii; radii in CELL units are multiples of the cell size
NbrAnnulus(inner_radius, outer_radius, unit, cellsize) ==
    LET k == IF unit = "CELL" THEN cellsize ELSE 1
        d2(o) == cellsize * cellsize * (o[1] * o[1] + o[2] * o[2])
    IN  {o \in (-MaxRadius..MaxRadius) \X (-MaxRadius..MaxRadius) :
            /\ (k * inner_radius) * (k * inner_radius) <= d2(o)
            /\ d2(o) <= (k * outer_radius) * (k * outer_radius)}

\* FocalStatistics(dem, annulus, 'MEAN', 'NODATA'): the mean as sum over n, n = 0
\* for NoData.  'NODATA': a NoData cell in the neighbourhood makes the output NoData.
\* edge: whether neighbourhood positions beyond the raster count as NoData cells
\* (decided inside arcpy).
FocalStatistics(dem, annulus, edge, envmask) ==
    [c \in DOMAIN dem |->
        LET pos == {<<c[1] + o[1], c[2] + o[2]>> : o \in annulus}
            inside == pos \cap DOMAIN dem
        IN  IF \/ ~InMask(envmask, c)
               \/ inside = {}
               \/ (edge /\ inside # pos)
               \/ \E p \in inside : dem[p] = NoData
            THEN [sum |-> 0, n |-> 0]
            ELSE [sum |-> SumOver(dem, inside), n |-> Cardinality(inside)]]

\* dem - focal_mean, as the fraction num/den; den = 0 for NoData
Minus(dem, focal_mean, envmask) ==
    [c \in DOMAIN dem |->
        IF ~InMask(envmask, c) \/ dem[c] = NoData \/ focal_mean[c].n = 0
        THEN [num |-> 0, den |-> 0]
        ELSE [num |-> dem[c] * focal_mean[c].n - focal_mean[c].sum,
              den |-> focal_mean[c].n]]

\* where a DEM may hold NoData: a corner, an edge and the centre of the grid
NoDataCandidates == {<<1, 1>>, <<1, 3>>, <<3, 3>>}

RECURSIVE NoDataSets(_)
NoDataSets(k) ==
    IF k = 0 THEN {{}}
    ELSE LET p == NoDataSets(k - 1)
         IN  p \cup {s \cup {c} : s \in p, c \in NoDataCandidates}

Elevation(kind, c) == IF kind = "flat" THEN 100 ELSE 100 + 3 * c[1] + c[2] * c[2]

Dems ==
    {[c \in DemCells |-> IF c \in nd THEN NoData ELSE Elevation(kind, c)] :
        kind \in {"flat", "relief"}, nd \in NoDataSets(MaxNoData)}

processTPI(dem, cellsize, outer_radius, inner_radius, unit, mask, edge, rejects) ==
    LET masked == mask # "None"
        env1 == IF masked THEN [env EXCEPT !.mask = mask] ELSE env
        dem1 == IF masked THEN ExtractByMask(dem, mask) ELSE dem
        annulus == NbrAnnulus(inner_radius, outer_radius, unit, cellsize)
        focal_mean == FocalStatistics(dem1, annulus, edge, env1.mask)
        tpi == Minus(dem1, focal_mean, env1.mask)
    IN  /\ call' = [fn |-> "processTPI", dem |-> dem, cellsize |-> cellsize,
                    outer_radius |-> outer_radius, inner_radius |-> inner_radius,
                    unit |-> unit, mask |-> mask, edge |-> edge]
        /\ IF rejects
           THEN /\ raised' = TRUE
                /\ env' = env1
                /\ out' = [dem |-> dem1]
           ELSE /\ raised' = FALSE
                /\ env' = [env1 EXCEPT !.mask = "None"]
                /\ out' = [dem |-> dem1, focal_mean |-> focal_mean, tpi |-> tpi]

CallProcessTPI ==
    /\ call.fn = "none"
    /\ \E dem \in Dems, cellsize \in {1, 2}, unit \in {"MAP", "CELL"},
          outer_radius \in 0..MaxRadius, inner_radius \in 0..MaxRadius,
          mask \in Masks \cup {"None"}, edge \in BOOLEAN :
        \E rejects \in (IF inner_radius >= outer_radius THEN BOOLEAN ELSE {FALSE}) :
            processTPI(dem, cellsize, outer_radius, inner_radius, unit, mask, edge, rejects)

----------------------------------------------------------------------------
(* Map algebra and Reclassify *)

\* a band bound: the integer n, or n * sqrt(d) when root
Num(n) == [root |-> FALSE, n |-> n]
Root(n) == [root |-> TRUE, n |-> n]

\* i <= k * sqrt(d)
LeqRoot(i, k, d) ==
    IF k >= 0 THEN i <= 0 \/ i * i <= k * k * d
    ELSE i <= 0 /\ i * i >= k * k * d

\* k * sqrt(d) <= i
RootLeq(k, i, d) ==
    IF k >= 0 THEN i >= 0 /\ i * i >= k * k * d
    ELSE i >= 0 \/ i * i <= k * k * d

Leq(a, b, d) ==
    IF a.root
    THEN IF b.root THEN d = 0 \/ a.n <= b.n ELSE RootLeq(a.n, b.n, d)
    ELSE IF b.root THEN LeqRoot(a.n, b.n, d) ELSE a.n <= b.n

Band(lo, hi, code) == [lo |-> lo, hi |-> hi, code |-> code]

\* RemapRange applied to one value y: a range holds the values from its start to its
\* end, both included; a value on the boundary two ranges share goes to the lower
\* range; a value in no range keeps its value (missing_values = 'DATA')
RemapRange(y, bands, d, keep) ==
    LET v == Num(y)
        idx == {i \in DOMAIN bands : Leq(bands[i].lo, v, d) /\ Leq(v, bands[i].hi, d)}
        Less(a, b) == ~Leq(b, a, d)
        Same(a, b) == Leq(a, b, d) /\ Leq(b, a, d)
        Before(i, j) ==
            \/ Less(bands[i].lo, bands[j].lo)
            \/ Same(bands[i].lo, bands[j].lo) /\ Less(bands[i].hi, bands[j].hi)
            \/ Same(bands[i].lo, bands[j].lo) /\ Same(bands[i].hi, bands[j].hi) /\ i < j
    IN  IF idx = {} THEN keep
        ELSE bands[CHOOSE i \in idx : \A j \in idx \ {i} : Before(i, j)].code

\* a variant of LandformTable: the codes of 0 and 10 exchanged
LandformTableExchanged ==
    <<<<-1001, 1>>, <<-1000, 4>>, <<-999, 8>>, <<-1, 2>>, <<0, 6>>, <<1, 9>>,
      <<10, 5>>, <<999, 3>>, <<1000, 7>>, <<1001, 10>>>>

\* the final table of landform
LandformTable ==
    <<<<-1001, 1>>, <<-1000, 4>>, <<-999, 8>>, <<-1, 2>>, <<0, 5>>, <<1, 9>>,
      <<10, 6>>, <<999, 3>>, <<1000, 7>>, <<1001, 10>>>>

\* RemapValue applied to one value: a value not in the table keeps its value
RemapValue(v, table) ==
    IF \E i \in DOMAIN table : table[i][1] = v
    THEN table[CHOOSE i \in DOMAIN table : table[i][1] = v][2]
    ELSE v

\* a cell-wise operator of one raster: NoData stays NoData, and so does a cell
\* outside arcpy.env.mask
Local1(r, f(_), envmask) ==
    [c \in DOMAIN r |->
        IF ~InMask(envmask, c) \/ r[c] = NoData THEN NoData ELSE f(r[c])]

EqualTo(r, k, envmask) == LET f(v) == IF v = k THEN 1 ELSE 0 IN Local1(r, f, envmask)
LessThanEqual(r, k, envmask) == LET f(v) == IF v <= k THEN 1 ELSE 0 IN Local1(r, f, envmask)
GreaterThan(r, k, envmask) == LET f(v) == IF v > k THEN 1 ELSE 0 IN Local1(r, f, envmask)

\* Con(cond, a, b) with constants a and b
ConConst(cond, a, b, envmask) == LET f(v) == IF v # 0 THEN a ELSE b IN Local1(cond, f, envmask)

\* Con(cond, true_raster, b): the true raster is read only where cond is true
ConRaster(cond, true_raster, b, envmask) ==
    [c \in DOMAIN cond |->
        IF ~InMask(envmask, c) \/ cond[c] = NoData THEN NoData
        ELSE IF cond[c] # 0 THEN true_raster[c] ELSE b]

Plus(r1, r2, envmask) ==
    [c \in DOMAIN r1 |->
        IF ~InMask(envmask, c) \/ r1[c] = NoData \/ r2[c] = NoData THEN NoData
        ELSE r1[c] + r2[c]]

----------------------------------------------------------------------------
(* slopePosition *)

TpiRasters == [StripCells -> (0..MaxTPI) \cup {NoData}]
\* slope rasters: one slope on the first cell and one on the others
SlopeRasters ==
    {[c \in StripCells |-> IF c[2] = 1 THEN a ELSE b] : a, b \in {5, 10, NoData}}

\* the five ranges of slopePosition for a raster with statistics st, on the scale
\* y = 2 * (n * tpi - s), where mean + k * sd is (2 * k) * sqrt(d)
SlopePositionBands(st) ==
    <<Band(Root(2), Num(2 * (st.n * st.max - st.s)), 1),
      Band(Root(1), Root(2), 2),
      Band(Root(-1), Root(1), 3),
      Band(Root(-2), Root(-1), 5),
      Band(Num(2 * (st.n * st.min - st.s)), Root(-2), 6)>>

ReclassifyTpi(tpi, st, envmask) ==
    LET f(v) == RemapRange(2 * (st.n * v - st.s), SlopePositionBands(st), st.d, v)
    IN  Local1(tpi, f, envmask)

\* a variant of SlopeCorrection: slope < 5 in place of slope <= 5
SlopeCorrectionStrict(tpi_r, slope, envmask) ==
    ConRaster(EqualTo(tpi_r, 3, envmask),
              ConConst(LessThanEqual(slope, 4, envmask), 1, 0, envmask), 0, envmask)

\* Con(tpi_r == 3, Con(slope <= 5, 1, 0), 0)
SlopeCorrection(tpi_r, slope, envmask) ==
    ConRaster(EqualTo(tpi_r, 3, envmask),
              ConConst(LessThanEqual(slope, 5, envmask), 1, 0, envmask), 0, envmask)

slopePosition(tpi, slope, mask) ==
    LET masked == mask # "None"
        env1 == IF masked THEN [mask |-> mask, snapRaster |-> "tpi"] ELSE env
        tpi1 == IF masked THEN ExtractByMask(tpi, mask) ELSE tpi
        slope1 == IF masked THEN ExtractByMask(slope, mask) ELSE slope
        st == Stats(tpi1)
        tpi_r == ReclassifyTpi(tpi1, st, env1.mask)
        slope_r == SlopeCorrection(tpi_r, slope1, env1.mask)
        tpislope == Plus(tpi_r, slope_r, env1.mask)
    IN  /\ call' = [fn |-> "slopePosition", tpi |-> tpi, slope |-> slope, mask |-> mask]
        /\ env' = env1
        /\ IF st.n = 0
           THEN \* the statistics of a raster without valid cells are None
                /\ raised' = TRUE
                /\ out' = [tpi |-> tpi1, slope |-> slope1]
           ELSE /\ raised' = FALSE
                /\ out' = [tpi |-> tpi1, slope |-> slope1, st |-> st, tpi_r |-> tpi_r,
                           slope_r |-> slope_r, tpislope |-> tpislope]

CallSlopePosition ==
    /\ call.fn = "none"
    /\ \E tpi \in TpiRasters, slope \in SlopeRasters, mask \in Masks \cup {"None"} :
        slopePosition(tpi, slope, mask)

----------------------------------------------------------------------------
(* landform *)

LandformTpiRasters == [StripCells -> (0..MaxLandformTPI) \cup {NoData}]
StdevThresholds == {1}
SlopeThresholds == {5, 10}

\* (tpi - mean) / sd on the scale y = n * tpi - s, where z = y / sqrt(d); a division
\* by zero gives NoData
ZScore(tpi, st, envmask) ==
    [c \in DOMAIN tpi |->
        IF ~InMask(envmask, c) \/ tpi[c] = NoData \/ st.d = 0 THEN NoData
        ELSE st.n * tpi[c] - st.s]

\* the integer part of y / sqrt(d), the value a z-score in no range would keep
Truncated(y, d) ==
    LET a == IF y < 0 THEN -y ELSE y
        q == CHOOSE k \in 0..a : k * k * d <= a * a /\ (k + 1) * (k + 1) * d > a * a
    IN  IF y < 0 THEN -q ELSE q

\* the three ranges of landform for a z-score raster: zmin and zmax are its
\* statistics, scale is 1 for the small and 1000 for the large neighbourhood
LandformBands(z, stdev_thres, scale) ==
    LET zs == Stats(z)
    IN  <<Band(Num(zs.min), Root(-stdev_thres), -scale),
          Band(Root(-stdev_thres), Root(stdev_thres), 0),
          Band(Root(stdev_thres), Num(zs.max), scale)>>

ReclassifyZ(z, d, stdev_thres, scale, envmask) ==
    LET bands == LandformBands(z, stdev_thres, scale)
        f(y) == RemapRange(y, bands, d, Truncated(y, d))
    IN  Local1(z, f, envmask)

\* a variant of LandformSlopeCorrection: the 10 is added where reclassadd is 1
LandformSlopeCorrectionAtOne(reclassadd, slope, slope_thres, envmask) ==
    ConRaster(EqualTo(reclassadd, 1, envmask),
              ConConst(GreaterThan(slope, slope_thres, envmask), 10, 0, envmask),
              0, envmask)

\* Con(reclassadd == 0, Con(slope > slope_thres, 10, 0), 0)
LandformSlopeCorrection(reclassadd, slope, slope_thres, envmask) ==
    ConRaster(EqualTo(reclassadd, 0, envmask),
              ConConst(GreaterThan(slope, slope_thres, envmask), 10, 0, envmask),
              0, envmask)

ReclassifyLandform(tpilandform, envmask) ==
    LET f(v) == RemapValue(v, LandformTable) IN Local1(tpilandform, f, envmask)

landform(tpi_small_scale, tpi_large_scale, slope, stdev_thres, slope_thres, mask, rejects) ==
    LET masked == mask # "None"
        env1 == IF masked THEN [env EXCEPT !.mask = mask] ELSE env
        small1 == IF masked THEN ExtractByMask(tpi_small_scale, mask) ELSE tpi_small_scale
        large1 == IF masked THEN ExtractByMask(tpi_large_scale, mask) ELSE tpi_large_scale
        slope1 == IF masked THEN ExtractByMask(slope, mask) ELSE slope
        ss == Stats(small1)
        sl == Stats(large1)
        small_z == ZScore(small1, ss, env1.mask)
        large_z == ZScore(large1, sl, env1.mask)
        small_zr == ReclassifyZ(small_z, ss.d, stdev_thres, 1, env1.mask)
        large_zr == ReclassifyZ(large_z, sl.d, stdev_thres, 1000, env1.mask)
        reclassadd == Plus(small_zr, large_zr, env1.mask)
        slope_r == LandformSlopeCorrection(reclassadd, slope1, slope_thres, env1.mask)
        tpilandform == Plus(reclassadd, slope_r, env1.mask)
        tpilandform_r == ReclassifyLandform(tpilandform, env1.mask)
        \* a z-score raster without valid cells has no minimum and no maximum
        noRange == Valid(small_z) = {} \/ Valid(large_z) = {}
    IN  /\ rejects \in (IF noRange THEN BOOLEAN ELSE {FALSE})
        /\ call' = [fn |-> "landform", tpi_small_scale |-> tpi_small_scale,
                    tpi_large_scale |-> tpi_large_scale, slope |-> slope,
                    stdev_thres |-> stdev_thres, slope_thres |-> slope_thres,
                    mask |-> mask]
        /\ env' = env1
        /\ IF ss.n = 0 \/ sl.n = 0
           THEN \* the statistics of a raster without valid cells are None
                /\ raised' = TRUE
                /\ out' = [tpi_small_scale |-> small1, tpi_large_scale |-> large1,
                           slope |-> slope1, divided |-> FALSE]
           ELSE IF rejects
           THEN /\ raised' = TRUE
                /\ out' = [tpi_small_scale |-> small1, tpi_large_scale |-> large1,
                           slope |-> slope1, divided |-> TRUE, ss |-> ss, sl |-> sl,
                           tpi_small_scale_z |-> small_z, tpi_large_scale_z |-> large_z]
           ELSE /\ raised' = FALSE
                /\ out' = [tpi_small_scale |-> small1, tpi_large_scale |-> large1,
                           slope |-> slope1, divided |-> TRUE, ss |-> ss, sl |-> sl,
                           tpi_small_scale_z |-> small_z, tpi_large_scale_z |-> large_z,
                           tpi_small_scale_zr |-> small_zr,
                           tpi_large_scale_zr |-> large_zr,
                           reclassadd |-> reclassadd, slope_r |-> slope_r,
                           tpilandform |-> tpilandform,
                           tpilandform_r |-> tpilandform_r]

CallLandform ==
    /\ call.fn = "none"
    /\ \E tpi_small_scale \in LandformTpiRasters, tpi_large_scale \in LandformTpiRasters,
          slope \in SlopeRasters, stdev_thres \in StdevThresholds,
          slope_thres \in SlopeThresholds, mask \in Masks \cup {"None"},
          rejects \in BOOLEAN :
        landform(tpi_small_scale, tpi_large_scale, slope, stdev_thres, slope_thres,
                 mask, rejects)

----------------------------------------------------------------------------

\* the caller drops the returned raster; arcpy.env stays as the call left it
Return ==
    /\ call.fn # "none"
    /\ call' = [fn |-> "none"]
    /\ out' = [none |-> TRUE]
    /\ raised' = FALSE
    /\ env' = env

Init ==
    /\ env = [mask |-> "None", snapRaster |-> "None"]
    /\ call = [fn |-> "none"]
    /\ out = [none |-> TRUE]
    /\ raised = FALSE

Next ==
    \/ CallProcessTPI
    \/ CallSlopePosition
    \/ CallLandform
    \/ Return

Spec == Init /\ [][Next]_vars

\* the calls of one function only
NextTPI ==
    \/ CallProcessTPI
    \/ Return

SpecTPI == Init /\ [][NextTPI]_vars

NextSlope ==
    \/ CallSlopePosition
    \/ Return

SpecSlope == Init /\ [][NextSlope]_vars

NextLandform ==
    \/ CallLandform
    \/ Return

SpecLandform == Init /\ [][NextLandform]_vars

----------------------------------------------------------------------------
(* Claims *)

IsCall(fn) == call.fn = fn /\ ~raised

\* the valid cells of the analysed DEM that lie in the annulus around cell c
NeighbourhoodValid(c) ==
    LET annulus == NbrAnnulus(call.inner_radius, call.outer_radius, call.unit,
                              call.cellsize)
    IN  {p \in DemCells : /\ <<p[1] - c[1], p[2] - c[2]>> \in annulus
                          /\ out.dem[p] # NoData}

\* C1: a focal-mean cell is NoData exactly when no valid cell of the grid lies in
\* its annulus, and otherwise is the mean of the valid cells there, whatever NoData
\* cells or positions beyond the grid edge the annulus also covers.  Stated for the
\* calls in which positions beyond the grid edge do not count as NoData cells.
C1_FocalNoDataIffNoValidCell ==
    (IsCall("processTPI") /\ call.inner_radius < call.outer_radius /\ ~call.edge) =>
        \A c \in DemCells :
            LET nb == NeighbourhoodValid(c)
            IN  /\ out.focal_mean[c].n = 0 <=> nb = {}
                /\ nb # {} => out.focal_mean[c] =
                                [sum |-> SumOver(out.dem, nb), n |-> Cardinality(nb)]

\* the mean, as the fraction s/n, equals the cell value v
AtMean(st, v) == st.n * v = st.s

\* C2 as stated: every valid slope-position cell has a code in 1..6, and a cell whose
\* tpi equals the grid mean gets class 3 when its slope is above the threshold (5)
\* and class 4 when its slope is at or below it.
C2_MeanCellIsClass3Or4 ==
    IsCall("slopePosition") =>
        \A c \in StripCells :
            /\ out.tpislope[c] # NoData => out.tpislope[c] \in 1..6
            /\ (out.tpi[c] # NoData /\ AtMean(out.st, out.tpi[c]) /\ out.slope[c] # NoData)
                  => out.tpislope[c] = IF out.slope[c] > 5 THEN 3 ELSE 4

\* C2 amended: every valid slope-position cell has a code in 1..6; in a grid whose
\* standard deviation is not zero, a cell whose tpi equals the grid mean and whose
\* slope is valid gets class 3 when its slope is above 5 and class 4 when it is at or
\* below 5, unless the mask environment in force excludes the cell, which then is
\* NoData; 5 is fixed in slopePosition, which takes no threshold.
C2_MeanCellIsClass3Or4WhenSdNonZero ==
    IsCall("slopePosition") =>
        \A c \in StripCells :
            /\ out.tpislope[c] # NoData => out.tpislope[c] \in 1..6
            /\ (/\ out.tpi[c] # NoData
                /\ AtMean(out.st, out.tpi[c])
                /\ out.st.d > 0
                /\ out.slope[c] # NoData)
                  => out.tpislope[c] =
                        IF ~InMask(env.mask, c) THEN NoData
                        ELSE IF out.slope[c] > 5 THEN 3 ELSE 4

\* C2 witness: a cell at the mean of a grid with spread, on flat slope, became class 4
C2_Witness ==
    /\ IsCall("slopePosition")
    /\ out.st.d > 0
    /\ \E c \in StripCells :
        /\ out.tpi[c] # NoData
        /\ AtMean(out.st, out.tpi[c])
        /\ out.slope[c] = 5
        /\ out.tpislope[c] = 4

FinalValues == {-1001, -1000, -999, -1, 0, 1, 10, 999, 1000, 1001}

\* C3: the value landform hands to its final exact-value remap is one of the ten
\* values of the table, the +10 is only ever added to a combined code of 0, and every
\* valid landform cell has a code in 1..10.
C3_FinalValueIsInTable ==
    IsCall("landform") =>
        \A c \in StripCells :
            /\ out.tpilandform[c] # NoData => out.tpilandform[c] \in FinalValues
            /\ out.tpilandform[c] = 10 => out.reclassadd[c] = 0
            /\ out.tpilandform_r[c] # NoData => out.tpilandform_r[c] \in 1..10

\* C3 witness: the slope correction was added to a cell flat at both scales
C3_Witness ==
    /\ IsCall("landform")
    /\ \E c \in StripCells :
        /\ out.reclassadd[c] = 0
        /\ out.slope_r[c] = 10
        /\ out.tpilandform[c] = 10
        /\ out.tpilandform_r[c] = 6

\* the bounds of a list of ranges listed from the lowest to the highest never
\* decrease, from the start of the first to the end of the last
BandsOrdered(bands, d) ==
    /\ \A i \in DOMAIN bands : Leq(bands[i].lo, bands[i].hi, d)
    /\ \A i, j \in DOMAIN bands : i < j => Leq(bands[i].hi, bands[j].lo, d)

InBand(y, b, d) == Leq(b.lo, Num(y), d) /\ Leq(Num(y), b.hi, d)

\* the value y lies in one range only, or on the boundary of two, and got the code of
\* the highest range it lies in
InOneBand(y, code, bands, d) ==
    LET idx == {i \in DOMAIN bands : InBand(y, bands[i], d)}
    IN  /\ idx # {}
        /\ \A i, j \in idx : i # j => Leq(bands[i].hi, Num(y), d) \/ Leq(bands[j].hi, Num(y), d)
        /\ \E i \in idx : bands[i].code = code /\ \A j \in idx : j <= i

\* the value y lies on a bound that two of the ranges share
OnBoundary(y, bands, d) ==
    \E i \in DOMAIN bands :
        \/ bands[i].lo.root /\ Leq(bands[i].lo, Num(y), d) /\ Leq(Num(y), bands[i].lo, d)
        \/ bands[i].hi.root /\ Leq(bands[i].hi, Num(y), d) /\ Leq(Num(y), bands[i].hi, d)

Reversed(bands) == [i \in DOMAIN bands |-> bands[Len(bands) + 1 - i]]

\* C4: the ranges slopePosition and landform build from the statistics are ordered
\* from the minimum to the maximum of the grid (min <= mean - sd, mean + sd <= max,
\* zmin <= -stdev_thres, stdev_thres <= zmax), every cell value lies in one range,
\* and a value on a shared boundary gets the higher range.  Stated for the grids of
\* which no cell value lies on a boundary two ranges share, where the last part says
\* nothing.
C4_BandsOrderedAndExhaustive ==
    /\ IsCall("slopePosition") =>
        LET \* slopePosition lists its ranges from the highest to the lowest
            bands == Reversed(SlopePositionBands(out.st))
            y(c) == 2 * (out.st.n * out.tpi[c] - out.st.s)
            cells == Valid(out.tpi_r)
        IN  (\A c \in cells : ~OnBoundary(y(c), bands, out.st.d))
                => /\ BandsOrdered(bands, out.st.d)
                   /\ \A c \in cells : InOneBand(y(c), out.tpi_r[c], bands, out.st.d)
    /\ IsCall("landform") =>
        LET bands == LandformBands(out.tpi_small_scale_z, call.stdev_thres, 1)
            z == out.tpi_small_scale_z
            cells == Valid(out.tpi_small_scale_zr)
        IN  (\A c \in cells : ~OnBoundary(z[c], bands, out.ss.d))
                => /\ BandsOrdered(bands, out.ss.d)
                   /\ \A c \in cells :
                        InOneBand(z[c], out.tpi_small_scale_zr[c], bands, out.ss.d)

\* the table of the claim
TableOfClaim(v) ==
    CASE v = -1001 -> 1 [] v = -1000 -> 4 [] v = -999 -> 8 [] v = -1 -> 2
      [] v = 0 -> 5 [] v = 1 -> 9 [] v = 10 -> 6 [] v = 999 -> 3
      [] v = 1000 -> 7 [] v = 1001 -> 10

\* C5: where both range codes are valid, the small code is -1, 0 or 1 and the large
\* code -1000, 0 or 1000; the landform code is the table applied to their sum, plus
\* 10 exactly when the sum is 0 and slope > slope_thres; the slope never changes the
\* code of a cell whose sum is not 0.
C5_LandformCodeIsTableOfSum ==
    IsCall("landform") =>
        \A c \in StripCells :
            (out.tpi_small_scale_zr[c] # NoData /\ out.tpi_large_scale_zr[c] # NoData) =>
                LET sum == out.tpi_small_scale_zr[c] + out.tpi_large_scale_zr[c]
                IN  /\ out.tpi_small_scale_zr[c] \in {-1, 0, 1}
                    /\ out.tpi_large_scale_zr[c] \in {-1000, 0, 1000}
                    /\ sum # 0 => out.tpilandform_r[c] = TableOfClaim(sum)
                    /\ (sum = 0 /\ out.slope[c] # NoData) =>
                          out.tpilandform_r[c] =
                            TableOfClaim(IF out.slope[c] > call.slope_thres THEN 10 ELSE 0)

\* C5 witness: one cell with both codes 0 and slope 10 above the threshold 5 got
\* code 6, and another with small code -1 and large code 1000 got code 3
C5_Witness ==
    /\ IsCall("landform")
    /\ call.slope_thres = 5
    /\ \E c \in StripCells :
        /\ out.tpi_small_scale_zr[c] = 0
        /\ out.tpi_large_scale_zr[c] = 0
        /\ out.slope[c] = 10
        /\ out.tpilandform_r[c] = 6
    /\ \E c \in StripCells :
        /\ out.tpi_small_scale_zr[c] = -1
        /\ out.tpi_large_scale_zr[c] = 1000
        /\ out.tpilandform_r[c] = 3

\* C6: processTPI on the flat 5 x 5 grid of elevation 100 without NoData, cell size 1,
\* unit CELL, inner radius 0 and outer radius 1, gives TPI = 0 at every cell, the
\* border and corner cells included.  Stated for the calls that follow a slopePosition
\* call with a mask (arcpy.env.snapRaster is still set) and in which positions beyond
\* the grid edge do not count as NoData cells.
C6_FlatGridHasZeroTpiEverywhere ==
    (/\ call.fn = "processTPI"
     /\ env.snapRaster = "tpi"
     /\ call.dem = [c \in DemCells |-> 100]
     /\ call.cellsize = 1 /\ call.unit = "CELL"
     /\ call.inner_radius = 0 /\ call.outer_radius = 1
     /\ call.mask = "None"
     /\ ~call.edge)
        => /\ ~raised
           /\ \A c \in DemCells : out.tpi[c].den # 0 /\ out.tpi[c].num = 0

\* C7: a call leaves arcpy.env (mask and snap raster) as it found it.
C7_CallLeavesEnvAsFound ==
    [][(call.fn = "none" /\ call'.fn # "none" /\ ~raised') => env' = env]_vars

\* C8: landform on a TPI raster whose standard deviation is 0 raises before it
\* divides, and gives no landform raster.
C8_ZeroSdRaisesBeforeDivision ==
    (/\ call.fn = "landform"
     /\ "ss" \in DOMAIN out
     /\ out.ss.d = 0 \/ out.sl.d = 0)
        => /\ raised
           /\ ~out.divided
           /\ "tpilandform_r" \notin DOMAIN out

\* C9: processTPI with inner_radius >= outer_radius raises before a focal mean is
\* computed, returns no TPI raster and leaves the mask environment as it found it.
\* Stated for the calls that are given a mask.
C9_InvalidAnnulusRaisesAndLeavesEnv ==
    [][(/\ call.fn = "none"
        /\ call'.fn = "processTPI"
        /\ call'.mask # "None"
        /\ call'.inner_radius >= call'.outer_radius)
          => /\ raised'
             /\ "focal_mean" \notin DOMAIN out'
             /\ env' = env]_vars

\* C10: in slopePosition a cell with a valid TPI and range code 1, 2, 5 or 6 keeps
\* that code whatever its slope cell holds, and an output cell is NoData exactly when
\* its TPI cell is NoData or its range code is 3 and its slope cell is NoData.
C10_SlopeNoDataMattersOnlyInBand3 ==
    IsCall("slopePosition") =>
        \A c \in StripCells :
            /\ (out.tpi[c] # NoData /\ out.tpi_r[c] \in {1, 2, 5, 6})
                  => out.tpislope[c] = out.tpi_r[c]
            /\ out.tpislope[c] = NoData
                  <=> (out.tpi[c] = NoData
                       \/ (out.tpi_r[c] = 3 /\ out.slope[c] = NoData))

====
